---- MODULE Spec2Model ----
(***************************************************************************)
(* Model of uvi.py: the interactive uv init front-end.                     *)
(*                                                                         *)
(* Three specifications share this module:                                 *)
(*   Spec        main(): argument parsing, prompts, the original run, the  *)
(*               classifier, the consent prompt, remediation and retry.    *)
(*   SpecDetect  detect_missing_ver() applied to bounded captured texts.   *)
(*   SpecRun     cmd_run(): the read / relay / capture loop of one child.  *)
(*                                                                         *)
(* Text is a sequence of tokens.  A token is one character, except that    *)
(* the three literal phrases of the classifier's pattern are one token     *)
(* each (they contain no digit, dot or backtick, so they cannot overlap    *)
(* the parts of the pattern that vary).                                    *)
(***************************************************************************)
EXTENDS Integers, Sequences, FiniteSets, TLC

\* ------------------------------------------------------------------ bounds

\* Largest exit code a child process returns in the model (codes 0..MaxCode).
MaxCode == 2

\* Longest run of filler characters between two fragments of a captured text.
MaxFill == 1

\* Most command-line arguments given to the program.
MaxArgs == 3

\* Most invalid answers the user gives to the prompts of one run.
MaxBad == 1

\* Most bytes one os.read returns in the model (the program asks for 1024).
MaxChunk == 1

\* Most non-empty reads of one cmd_run.
MaxReads == 3

\* ------------------------------------------------------- text and tokens

\* the first literal of the pattern (uvi.py:78)
NOINTERP == "No interpreter found for Python "

\* the second literal of the pattern (uvi.py:78)
AVAIL == "A managed Python download is available"

\* the third literal of the pattern up to the version (uvi.py:78): the word
\* use, a backtick (written <bt> here), and the install command
INSTALL == "use <bt>uv python install "

\* the closing backtick of the pattern (uvi.py:78)
TICK == "<bt>"

\* the characters \d matches
Digits == {"0", "1", "2", "3", "4", "5", "6", "7", "8", "9"}

\* the value None of Python stands for
None == <<"None">>

\* ---------------------------------------------------- detect_missing_ver

\* index of the last character of the maximal run of digits starting at i
\* (i - 1 when output[i] is not a digit): what a greedy \d+ consumes
RECURSIVE DigitRunEnd(_, _)
DigitRunEnd(output, i) ==
    IF i <= Len(output) /\ output[i] \in Digits
    THEN DigitRunEnd(output, i + 1)
    ELSE i - 1

\* the ends e of every text (\d+\.\d+) can capture when the pattern is tried
\* at position i: the first \d+ can only be the whole run of digits (a
\* shorter one is followed by a digit, not by the dot), the second \d+ is any
\* non-empty prefix of the run after the dot
CaptureEnds(output, i) ==
    IF i > Len(output) \/ output[i] # NOINTERP THEN {}
    ELSE LET p == DigitRunEnd(output, i + 1) + 1     \* position of the dot
         IN  IF p = i + 1 \/ p > Len(output) \/ output[p] # "." THEN {}
             ELSE (p + 1)..DigitRunEnd(output, p + 1)

\* no line break in output[a..b]
NoLineBreak(output, a, b) == \A t \in a..b : output[t] # "\n"

\* the rest of the pattern as it would match without re.DOTALL: the two .*
\* stop at a line break
RestMatchesWithoutDotAll(output, i, e) ==
    LET n == e - i
    IN  \E j \in (e + 1)..Len(output) :
          /\ output[j] = AVAIL
          /\ NoLineBreak(output, e + 1, j - 1)
          /\ \E k \in (j + 1)..Len(output) :
                /\ output[k] = INSTALL
                /\ NoLineBreak(output, j + 1, k - 1)
                /\ k + n + 1 <= Len(output)
                /\ SubSeq(output, k + 1, k + n) = SubSeq(output, i + 1, e)
                /\ output[k + n + 1] = TICK

\* the rest of the pattern after the group captured output[i+1..e]:
\* .* AVAIL .* INSTALL \1 TICK   (re.DOTALL: .* crosses line breaks)
RestMatches(output, i, e) ==
    LET n == e - i
    IN  \E j \in (e + 1)..Len(output) :
          /\ output[j] = AVAIL
          /\ \E k \in (j + 1)..Len(output) :
                /\ output[k] = INSTALL
                /\ k + n + 1 <= Len(output)
                /\ SubSeq(output, k + 1, k + n) = SubSeq(output, i + 1, e)
                /\ output[k + n + 1] = TICK

\* the pattern matches at start position i with some capture
MatchesAt(output, i) ==
    \E e \in CaptureEnds(output, i) : RestMatches(output, i, e)

\* re.search: the leftmost start that matches; at that start the greedy
\* second \d+ gives up digits one at a time, so the longest capture whose
\* rest matches is the one returned as group(1); None without a match
detect_missing_ver(output) ==
    LET starts == {i \in 1..Len(output) : MatchesAt(output, i)}
    IN  IF starts = {} THEN None
        ELSE LET i  == CHOOSE s \in starts : \A t \in starts : s <= t
                 es == {e \in CaptureEnds(output, i) : RestMatches(output, i, e)}
                 e  == CHOOSE m \in es : \A t \in es : t <= m
             IN  SubSeq(output, i + 1, e)

\* ------------------------------------------------ bounded captured texts

\* the versions the bounded texts name: 3.1 is a proper prefix of 3.12
Versions == {<<"3", ".", "1">>, <<"3", ".", "1", "2">>, <<"3", ".", "2">>}

\* every sequence over S of length at most n
SeqsUpTo(S, n) == UNION {[1..k -> S] : k \in 0..n}

\* filler characters: a letter, a line break, a digit
FillChars == {"x", "\n", "2"}

\* a whole fragment standing inside the intervening text
Distractors ==
    {<<NOINTERP>> \o v : v \in Versions} \cup {<<AVAIL>>}
      \cup {<<INSTALL>> \o v \o <<TICK>> : v \in Versions}

\* the intervening text between two fragments
Fills == SeqsUpTo(FillChars, MaxFill) \cup Distractors

\* text before the first and after the last fragment
Edges == {<< >>, <<"x">>}

\* the install command written without the backtick
INSTALLPLAIN == "use uv python install "

\* the forms of an install fragment naming v
InstallForms(v) ==
    {<<INSTALL>> \o v \o <<TICK>>, <<INSTALL>> \o v, <<INSTALLPLAIN>> \o v}

\* the parts a bounded captured text is made of; an absent fragment is << >>
TextParts ==
    [f0     : Edges,
     first  : {<< >>} \cup {<<NOINTERP>> \o v : v \in Versions},
     f1     : Fills,
     avail  : {<< >>, <<AVAIL>>},
     f2     : Fills,
     second : {<< >>} \cup UNION {InstallForms(v) : v \in Versions},
     f3     : Edges]

TextOf(p) == p.f0 \o p.first \o p.f1 \o p.avail \o p.f2 \o p.second \o p.f3

\* ------------------------------------------------------------- constants

\* PROJ_TYPES: short code to project type
PROJ_TYPES == [b |-> "bare", p |-> "package", a |-> "app", l |-> "lib",
               s |-> "script"]

\* the values of PROJ_TYPES
ProjTypeValues == {PROJ_TYPES[k] : k \in DOMAIN PROJ_TYPES}

\* PY3_SUPPORT = range(7, 15), as the sequence of its elements
PY3_SUPPORT == [i \in 1..8 |-> 6 + i]

\* the error marker yn_inp puts before a repeated prompt
ErrMarker == <<"[red]! [/]">>

\* the value of a variable that has not been assigned yet
Unset == <<"unset">>

\* exit status of a process that has not terminated
Running == -1

\* no child process is alive
NoChild == "none"

\* ----------------------------------------------------------- conversions

\* str(n) for a natural number
RECURSIVE Str(_)
Str(n) ==
    LET d == <<"0", "1", "2", "3", "4", "5", "6", "7", "8", "9">>[(n % 10) + 1]
    IN  IF n < 10 THEN <<d>> ELSE Str(n \div 10) \o <<d>>

\* f"3.{i}"
Py3(i) == <<"3", ".">> \o Str(i)

\* str.strip(): leading and trailing white space removed
RECURSIVE Strip(_)
Strip(x) ==
    IF x = << >> THEN x
    ELSE IF Head(x) \in {" ", "\n"} THEN Strip(Tail(x))
    ELSE IF x[Len(x)] \in {" ", "\n"} THEN Strip(SubSeq(x, 1, Len(x) - 1))
    ELSE x

\* str.lower() on the letters the answers use
LowerChar(c) ==
    CASE c = "Y" -> "y" [] c = "E" -> "e" [] c = "S" -> "s"
      [] c = "N" -> "n" [] c = "O" -> "o" [] OTHER -> c

Lower(x) == [i \in 1..Len(x) |-> LowerChar(x[i])]

\* repr() of a string without double quote or backslash: single quotes
\* around it, double quotes when it contains a single quote (<sq>, <dq>)
Repr(x) ==
    IF \E i \in 1..Len(x) : x[i] = "<sq>"
    THEN <<"<dq>">> \o x \o <<"<dq>">>
    ELSE <<"<sq>">> \o x \o <<"<sq>">>

\* inp(): the line the user typed, stripped
inp(raw) == Strip(raw)

\* yn_inp without .lower()
yn_inpCaseSensitive(raw) ==
    LET inpt == inp(raw)
    IN  IF inpt \in {<<"y", "e", "s">>, <<"y">>} THEN "yes"
        ELSE IF inpt \in {<<"n", "o">>, <<"n">>} THEN "no"
        ELSE "again"

\* one pass of the loop of yn_inp on the line typed: "yes" and "no" are the
\* two returns, "again" is the next iteration with the error marker set
yn_inp(raw) ==
    LET inpt == Lower(inp(raw))
    IN  IF inpt \in {<<"y", "e", "s">>, <<"y">>} THEN "yes"
        ELSE IF inpt \in {<<"n", "o">>, <<"n">>} THEN "no"
        ELSE "again"

\* get_ver with the last supported version as its default
get_verDefaultsToLast(raw) ==
    LET v == Lower(inp(raw))
    IN  IF v = << >> THEN Py3(PY3_SUPPORT[Len(PY3_SUPPORT)])
        ELSE IF v \in {Py3(PY3_SUPPORT[i]) : i \in 1..Len(PY3_SUPPORT)} THEN v
        ELSE Unset

\* one pass of the loop of get_ver on the line typed: the version returned,
\* or Unset when the answer is rejected and the prompt repeats
get_ver(raw) ==
    LET v == Lower(inp(raw))
    IN  IF v = << >> THEN Py3(PY3_SUPPORT[Len(PY3_SUPPORT) - 1])
        ELSE IF v \in {Py3(PY3_SUPPORT[i]) : i \in 1..Len(PY3_SUPPORT)} THEN v
        ELSE Unset

\* get_desc on the line typed
get_desc(raw) == Repr(inp(raw))

\* the prompt input() shows for inp(prompt, sup), with the function asking
PromptText(fn, prompt, sup) == [fn |-> fn, prompt |-> prompt, sup |-> sup]

\* ---------------------------------------------------------- argument check

\* proj_type in PROJ_TYPES or proj_type in PROJ_TYPES.values()
valid_proj_type(t) == t \in DOMAIN PROJ_TYPES \/ t \in ProjTypeValues

\* every word passes as a project name
valid_proj_nameAny(n) == TRUE

\* str.isidentifier() on the argument words the model uses
valid_proj_name(n) == n \in {"s", "lib", "foo"}

\* parse_args on the arguments after the program name: the exit status it
\* terminates the program with (Running when it returns), what it printed
\* with perr, and the project type and name it returns
parse_args(args) ==
    LET argc == Len(args)
        has(f) == \E i \in 1..argc : args[i] = f
        stop(code, how, msgs) ==
            [code |-> code, how |-> how, errs |-> msgs, pt |-> "", pn |-> ""]
    IN  IF has("-h") \/ has("--help") THEN stop(0, "help", << >>)
        ELSE IF has("-v") \/ has("--version") THEN stop(0, "version", << >>)
        ELSE IF argc = 0
          THEN stop(2, "usage", <<"missing args: project type & project name">>)
        ELSE IF argc = 1
          THEN IF valid_proj_type(args[1])
               THEN stop(2, "usage", <<"missing arg: project name">>)
               ELSE stop(2, "usage", <<"invalid project type">>)
        ELSE IF argc = 2 /\ ~valid_proj_type(args[1])
          THEN stop(2, "usage", <<"invalid project type">>)
        ELSE IF argc = 2 /\ ~valid_proj_name(args[2])
          THEN stop(2, "usage", <<"invalid project name">>)
        ELSE IF argc > 2
          THEN stop(2, "usage",
                    <<"too many args: give only project type & project name">>)
        ELSE [code |-> Running, how |-> "running", errs |-> << >>,
              pt |-> IF args[1] \in DOMAIN PROJ_TYPES
                     THEN PROJ_TYPES[args[1]] ELSE args[1],
              pn |-> args[2]]

\* --------------------------------------------------------- the commands

\* the command main assembles for a script project (uvi.py:209)
ScriptCmd(n, t, v) ==
    <<"uv init ", n, " --", t, " --python ">> \o v

\* the command of a project without its --vcs option
ProjectCmdWithoutVcs(n, t, v, d, c, r) ==
    <<"uv init ", n, " --", t, " --python ">> \o v
      \o <<" --description ">> \o d \o <<" ", r>>

\* the command main assembles for every other project type (uvi.py:214)
ProjectCmd(n, t, v, d, c, r) ==
    <<"uv init ", n, " --", t, " --python ">> \o v
      \o <<" --description ">> \o d \o <<" --vcs ", c, " ", r>>

\* the install command for the default version, whatever is missing
InstallCmdOfDefault(v) == <<"uv python install ", "3", ".", "1", "3">>

\* the command install_missing_ver runs (uvi.py:87)
InstallCmd(v) == <<"uv python install ">> \o v

\* ----------------------------------------------------- inputs of a run

\* the words an argument can be
ArgWords == {"-h", "--version", "s", "lib", "foo", "9x"}

\* the argument vectors of a run
Argvs == SeqsUpTo(ArgWords, MaxArgs)

\* the lines a user types at the version prompt
VerAnswers ==
    {<< >>, <<" ", "3", ".", "7">>, <<"3", ".", "1", "4">>,
     <<"3", ".", "1", "5">>, <<"3", ".", "6">>, <<"x">>}

\* the lines a user types at the description prompt
DescAnswers == {<< >>, <<"a", " ">>, <<"<sq>", "a">>}

\* the lines a user types at a yes/no prompt
YnAnswers ==
    {<<"y">>, <<" ", "Y", "E", "S">>, <<"n">>, <<"N", "o", " ">>,
     <<"y", "e">>, << >>}

\* the exit codes of a child process
ExitCodes == 0..MaxCode

\* the captured outputs of a child process: an unrelated message, the
\* missing-interpreter message for 3.12, and the first fragment of that
\* message without the install fragment
Outputs ==
    {<<"x", "\n">>,
     <<"x", NOINTERP, "3", ".", "1", "2", "\n", AVAIL, "x", INSTALL,
       "3", ".", "1", "2", TICK>>,
     <<NOINTERP, "3", ".", "1", "2", "\n", AVAIL>>}

\* ------------------------------------------------------------------ state

VARIABLES
    pc,           \* where main is: "parse_args", "get_ver", "get_desc",
                  \* "get_vcs", "get_rm", "original", "consent",
                  \* "remediation", "retry" or "done"
    argv,         \* sys.argv[1:]
    pt, pn,       \* the project type and name parse_args returned
    ver, desc, vcs, readme_flag,   \* the answers, as main keeps them
    err_str,      \* the error marker of the running yn_inp
    cmd,          \* the assembled command
    exit_code, output,             \* main: result of cmd_run
    missing_ver,  \* main: result of detect_missing_ver
    install_code, \* install_missing_ver: exit code of the install command
    consent,      \* history: what yn_inp returned to install_missing_ver
    child,        \* the kind of the child process that is alive, or NoChild
    status,       \* the exit status of the program, Running until it ends
    how,          \* how the program ended: "help", "version", "usage",
                  \* "exit" (sys.exit after a child ran) or "interrupt"
    runs,         \* history: the children started, in order, each with its
                  \* kind, command, exit code (Running while alive) and output
    prompts,      \* history: the prompts shown, in order
    errs,         \* history: the messages printed with perr
    classified,   \* history: number of calls of detect_missing_ver
    bad,          \* number of invalid answers given so far
    typed,        \* history: the line the user typed last
    drained,      \* history: whether the cmd_run that returned last had read
                  \* the output of its child up to the end of the stream
    dm_parts,     \* SpecDetect: the parts the captured text was made of
    dm_output,    \* SpecDetect: the argument of detect_missing_ver
    dm_result,    \* SpecDetect: its return value
    dm_pc,        \* SpecDetect: "input" before the call, "classified" after
    rn_pc,        \* SpecRun: where cmd_run is: "read", "wait" or "returned"
    rn_chunks,    \* SpecRun: history, the chunks os.read returned, in order
    rn_relayed,   \* SpecRun: the bytes written to sys.stdout, in order
    rn_outbuf,    \* SpecRun: outbuf, the decoded chunks
    rn_child,     \* SpecRun: the exit code of the child, Running while alive
    rn_end,       \* SpecRun: history, how the loop ended: "eof", "read error"
                  \* or "write error"
    rn_eof,       \* SpecRun: the output of the child is at its end: the
                  \* slave side is closed and every byte has been read
    rn_ret        \* SpecRun: what cmd_run returned: exit code and output

mainVars == <<pc, argv, pt, pn, ver, desc, vcs, readme_flag, err_str, cmd,
              exit_code, output, missing_ver, install_code, consent, child,
              status, how, runs, prompts, errs, classified, bad, typed,
              drained>>

dmVars == <<dm_parts, dm_output, dm_result, dm_pc>>

rnVars == <<rn_pc, rn_chunks, rn_relayed, rn_outbuf, rn_child, rn_end,
           rn_eof, rn_ret>>

vars == <<mainVars, dmVars, rnVars>>

\* ------------------------------------------------------- Spec: main()

\* main before its first statement, for the argument vector args
MainStart(args) ==
    /\ pc = "parse_args"
    /\ argv = args
    /\ pt = "" /\ pn = ""
    /\ ver = Unset /\ desc = Unset /\ vcs = "" /\ readme_flag = ""
    /\ err_str = << >>
    /\ cmd = Unset
    /\ exit_code = Running /\ output = Unset
    /\ missing_ver = Unset
    /\ install_code = Running
    /\ consent = "unasked"
    /\ child = NoChild
    /\ status = Running /\ how = "running"
    /\ runs = << >> /\ prompts = << >> /\ errs = << >>
    /\ classified = 0
    /\ bad = 0
    /\ typed = Unset
    /\ drained = TRUE

\* the classifier's variables while main is the program modelled
DetectIdle ==
    /\ dm_parts = [f0 |-> << >>, first |-> << >>, f1 |-> << >>,
                   avail |-> << >>, f2 |-> << >>, second |-> << >>,
                   f3 |-> << >>]
    /\ dm_output = << >>
    /\ dm_result = None
    /\ dm_pc = "idle"

\* the variables of cmd_run while another function is the one modelled
RunIdle ==
    /\ rn_pc = "idle"
    /\ rn_chunks = << >>
    /\ rn_relayed = << >>
    /\ rn_outbuf = << >>
    /\ rn_child = Running
    /\ rn_end = ""
    /\ rn_eof = FALSE
    /\ rn_ret = [exit_code |-> Running, output |-> << >>]

Init ==
    /\ \E args \in Argvs : MainStart(args)
    /\ DetectIdle
    /\ RunIdle

\* sys.exit(code): the program ends
SysExit(code, kind) ==
    /\ status' = code
    /\ how' = kind
    /\ pc' = "done"

\* input() shows the prompt of inp(err_str + prompt, sup)
Ask(fn, marker, prompt, sup) ==
    prompts' = Append(prompts, PromptText(fn, marker \o prompt, sup))

\* the consent prompt of install_missing_ver(v), after the marker given
AskConsent(marker, v) ==
    Ask("install_missing_ver", marker, <<"install Python ">> \o v \o <<"?">>,
        "y/n")

\* the second run of the command starts the install command instead
StartedOnInstall(rs, kind, c) ==
    Append(rs, [kind |-> kind,
                cmd |-> IF kind = "retry" THEN InstallCmd(missing_ver) ELSE c,
                code |-> Running, out |-> << >>])

\* subprocess.Popen in cmd_run: the history rs with the child of the given
\* kind started on command c
Started(rs, kind, c) ==
    Append(rs, [kind |-> kind, cmd |-> c, code |-> Running, out |-> << >>])

\* cmd_run(c) up to its read loop: the child is alive
Popen(kind, c) ==
    /\ child' = kind
    /\ runs' = Started(runs, kind, c)

\* cmd_run returns without waiting for its child
NotReaped(code, out) == runs

\* proc.wait() in cmd_run: the child that is alive has exited with code,
\* and cmd_run returns code and the captured output out
Reaped(code, out) ==
    [runs EXCEPT ![Len(runs)].code = code, ![Len(runs)].out = out]

\* pt, pn = parse_args(); then the prompt of get_ver is shown
ParseArgs ==
    /\ pc = "parse_args"
    /\ LET r == parse_args(argv)
       IN  IF r.code # Running
           THEN /\ SysExit(r.code, r.how)
                /\ errs' = errs \o r.errs
                /\ UNCHANGED <<pt, pn, prompts>>
           ELSE /\ pt' = r.pt
                /\ pn' = r.pn
                /\ pc' = "get_ver"
                /\ Ask("get_ver", << >>, <<"version">>, "enter for default")
                /\ UNCHANGED <<status, how, errs>>
    /\ UNCHANGED <<argv, ver, desc, vcs, readme_flag, err_str, cmd, exit_code,
                   output, missing_ver, install_code, child, runs,
                   classified, bad, consent, typed, drained, dmVars,
                   rnVars>>

\* one line typed at the version prompt: get_ver returns or asks again; for
\* a script project the command is assembled and the original run starts
GetVer ==
    /\ pc = "get_ver"
    /\ \E raw \in VerAnswers :
         LET v == get_ver(raw)
         IN  IF v = Unset
             THEN /\ bad < MaxBad
                  /\ bad' = bad + 1
                  /\ typed' = raw
                  /\ errs' = Append(errs, "invalid version")
                  /\ Ask("get_ver", << >>, <<"version">>, "enter for default")
                  /\ UNCHANGED <<pc, ver, cmd, child, runs>>
             ELSE /\ ver' = v
                  /\ typed' = raw
                  /\ IF pt = "script"
                     THEN /\ cmd' = ScriptCmd(pn, pt, v)
                          /\ Popen("original", cmd')
                          /\ pc' = "original"
                          /\ UNCHANGED prompts
                     ELSE /\ pc' = "get_desc"
                          /\ Ask("get_desc", << >>, <<"desc">>, "")
                          /\ UNCHANGED <<cmd, child, runs>>
                  /\ UNCHANGED <<bad, errs>>
    /\ UNCHANGED <<argv, pt, pn, desc, vcs, readme_flag, err_str, exit_code,
                   output, missing_ver, install_code, status, how,
                   classified, consent, drained, dmVars, rnVars>>

\* the line typed at the description prompt; then yn_inp("vcs") starts
GetDesc ==
    /\ pc = "get_desc"
    /\ \E raw \in DescAnswers :
         /\ typed' = raw
         /\ desc' = get_desc(raw)
    /\ pc' = "get_vcs"
    /\ err_str' = << >>
    /\ Ask("get_vcs", << >>, <<"vcs">>, "y/n")
    /\ UNCHANGED <<argv, pt, pn, ver, vcs, readme_flag, cmd, exit_code,
                   output, missing_ver, install_code, child, status, how,
                   runs, errs, classified, bad, consent, drained, dmVars,
                   rnVars>>

\* one line typed at the vcs prompt; on a return yn_inp("readme") starts
GetVcs ==
    /\ pc = "get_vcs"
    /\ \E raw \in YnAnswers :
         LET a == yn_inp(raw)
         IN  IF a = "again"
             THEN /\ bad < MaxBad
                  /\ bad' = bad + 1
                  /\ typed' = raw
                  /\ err_str' = ErrMarker
                  /\ Ask("get_vcs", ErrMarker, <<"vcs">>, "y/n")
                  /\ UNCHANGED <<pc, vcs>>
             ELSE /\ vcs' = IF a = "yes" THEN "'git'" ELSE "'none'"
                  /\ typed' = raw
                  /\ pc' = "get_rm"
                  /\ err_str' = << >>
                  /\ Ask("get_rm", << >>, <<"readme">>, "y/n")
                  /\ UNCHANGED bad
    /\ UNCHANGED <<argv, pt, pn, ver, desc, readme_flag, cmd, exit_code,
                   output, missing_ver, install_code, child, status, how,
                   runs, errs, classified, consent, drained, dmVars,
                   rnVars>>

\* one line typed at the readme prompt; on a return the command is
\* assembled and the original run starts
GetRm ==
    /\ pc = "get_rm"
    /\ \E raw \in YnAnswers :
         LET a == yn_inp(raw)
         IN  IF a = "again"
             THEN /\ bad < MaxBad
                  /\ bad' = bad + 1
                  /\ typed' = raw
                  /\ err_str' = ErrMarker
                  /\ Ask("get_rm", ErrMarker, <<"readme">>, "y/n")
                  /\ UNCHANGED <<pc, readme_flag, cmd, child, runs>>
             ELSE /\ readme_flag' = IF a = "yes" THEN "" ELSE "--no-readme"
                  /\ typed' = raw
                  /\ cmd' = ProjectCmd(pn, pt, ver, desc, vcs, readme_flag')
                  /\ Popen("original", cmd')
                  /\ pc' = "original"
                  /\ UNCHANGED <<bad, err_str, prompts>>
    /\ UNCHANGED <<argv, pt, pn, ver, desc, vcs, exit_code, output,
                   missing_ver, install_code, status, how, errs, classified,
                   consent, drained, dmVars, rnVars>>

\* main classifies the output of every run that returns a non-zero code
ClassifiesEveryRun(kind, code) == code # 0

\* main classifies the output of the original run whatever its code
ClassifiesEveryOriginal(kind, code) == kind = "original"

\* whether main passes the output of a run to detect_missing_ver: the
\* original run when its code is not 0 (lines 216-219); never the second
\* run, whose output line 222 drops
Classifies(kind, code) == kind = "original" /\ code # 0

\* every value counts as a version found
TruthyAlways(v) == TRUE

\* if missing_ver: (line 220)
Truthy(v) == v \notin {None, << >>}

\* the install command never counts as failed
InstallFailedNever(code) == FALSE

\* if install_code != 0: (line 88)
InstallFailed(code) == code # 0

\* the exit code of the second run is dropped
KeepsFirstExitCode(first, second) == first

\* exit_code, _ = cmd_run(cmd) (line 222): the value of exit_code after the
\* second run, from its value before and the code the run returned
RetriedExitCode(first, second) == second

\* lines 219-221 and 224 for a classified output: detect_missing_ver, then
\* either the consent prompt of install_missing_ver or sys.exit(code)
ClassifyThen(code, out) ==
    /\ missing_ver' = detect_missing_ver(out)
    /\ classified' = classified + 1
    /\ IF Truthy(missing_ver')
       THEN /\ pc' = "consent"
            /\ err_str' = << >>
            /\ AskConsent(<< >>, missing_ver')
            /\ UNCHANGED <<status, how>>
       ELSE /\ SysExit(code, "exit")
            /\ UNCHANGED <<err_str, prompts>>

\* cmd_run(cmd) returns for the original run; main lines 216-221 up to the
\* consent prompt of install_missing_ver, or line 224.  The read loop of
\* cmd_run ends at the end of the child's output or on an OSError before it
\* (lines 104-112): drained records which
OriginalExits ==
    /\ pc = "original"
    /\ \E code \in ExitCodes, out \in Outputs :
         /\ exit_code' = code
         /\ output' = out
         /\ runs' = Reaped(code, out)
         /\ child' = NoChild
         /\ IF Classifies("original", code)
            THEN ClassifyThen(exit_code', out)
            ELSE /\ SysExit(exit_code', "exit")
                 /\ UNCHANGED <<missing_ver, classified, err_str, prompts>>
    /\ drained' \in BOOLEAN
    /\ UNCHANGED <<argv, pt, pn, ver, desc, vcs, readme_flag, cmd,
                   install_code, consent, errs, bad, typed, dmVars, rnVars>>

\* one line typed at the consent prompt: on yes install_missing_ver starts
\* the install command (line 87); on no it returns, and main line 222
\* starts the command again
InstallMissingVer ==
    /\ pc = "consent"
    /\ \E raw \in YnAnswers :
         LET a == yn_inp(raw)
         IN  IF a = "again"
             THEN /\ bad < MaxBad
                  /\ bad' = bad + 1
                  /\ typed' = raw
                  /\ err_str' = ErrMarker
                  /\ AskConsent(ErrMarker, missing_ver)
                  /\ UNCHANGED <<pc, consent, child, runs>>
             ELSE /\ consent' = a
                  /\ typed' = raw
                  /\ IF a = "yes"
                     THEN /\ Popen("remediation", InstallCmd(missing_ver))
                          /\ pc' = "remediation"
                     ELSE /\ Popen("retry", cmd)
                          /\ pc' = "retry"
                  /\ UNCHANGED <<bad, err_str, prompts>>
    /\ UNCHANGED <<argv, pt, pn, ver, desc, vcs, readme_flag, cmd, exit_code,
                   output, missing_ver, install_code, status, how, errs,
                   classified, drained, dmVars, rnVars>>

\* cmd_run returns for the install command (lines 87-91): on a failed
\* install install_missing_ver exits the program with its code, else it
\* returns and main line 222 starts the command again
RemediationExits ==
    /\ pc = "remediation"
    /\ \E code \in ExitCodes :
         /\ install_code' = code
         /\ IF InstallFailed(code)
            THEN /\ runs' = Reaped(code, << >>)
                 /\ child' = NoChild
                 /\ errs' = Append(errs, "failed to install Python")
                 /\ SysExit(code, "exit")
            ELSE /\ runs' = Started(Reaped(code, << >>), "retry", cmd)
                 /\ child' = "retry"
                 /\ pc' = "retry"
                 /\ UNCHANGED <<status, how, errs>>
    /\ drained' \in BOOLEAN
    /\ UNCHANGED <<argv, pt, pn, ver, desc, vcs, readme_flag, err_str, cmd,
                   exit_code, output, missing_ver, consent, prompts,
                   classified, bad, typed, dmVars, rnVars>>

\* cmd_run(cmd) returns for the second run of the command (lines 222-224):
\* its code becomes exit_code, its output is dropped, and main exits
RetryExits ==
    /\ pc = "retry"
    /\ \E code \in ExitCodes, out \in Outputs :
         /\ exit_code' = RetriedExitCode(exit_code, code)
         /\ runs' = Reaped(code, out)
         /\ child' = NoChild
         /\ IF Classifies("retry", code)
            THEN ClassifyThen(exit_code', out)
            ELSE /\ SysExit(exit_code', "exit")
                 /\ UNCHANGED <<missing_ver, classified, err_str, prompts>>
    /\ drained' \in BOOLEAN
    /\ UNCHANGED <<argv, pt, pn, ver, desc, vcs, readme_flag, cmd, output,
                   install_code, consent, errs, bad, typed, dmVars, rnVars>>

\* the handler swallows the interrupt and main goes on where it was
InterruptResumes(at) == at

\* where main is after except KeyboardInterrupt (lines 226-228): the
\* handler ends in sys.exit, whatever main was doing
AfterInterrupt(at) == "done"

\* KeyboardInterrupt anywhere inside the try of main: exit status 130.  The
\* with-block of Popen waits a moment for the child and then lets the
\* exception go on, so a child still running may outlive the program.
Interrupt ==
    /\ pc # "done"
    /\ status' = 130
    /\ how' = "interrupt"
    /\ pc' = AfterInterrupt(pc)
    /\ child' \in {child, NoChild}
    /\ UNCHANGED <<argv, pt, pn, ver, desc, vcs, readme_flag, err_str, cmd,
                   exit_code, output, missing_ver, install_code, consent,
                   runs, prompts, errs, classified, bad, typed, drained,
                   dmVars, rnVars>>

Next ==
    \/ ParseArgs
    \/ GetVer
    \/ GetDesc
    \/ GetVcs
    \/ GetRm
    \/ OriginalExits
    \/ InstallMissingVer
    \/ RemediationExits
    \/ RetryExits
    \/ Interrupt

Spec == Init /\ [][Next]_vars

\* ------------------------------------------------------------ claims C1-C7

\* the positions in the history of the children of the given kind
RunsOf(kind) == {i \in 1..Len(runs) : runs[i].kind = kind}

\* the child at position i of the history has exited
Exited(i) == runs[i].code # Running

\* the consent prompt has been shown
ConsentAsked == \E i \in 1..Len(prompts) : prompts[i].fn = "install_missing_ver"

\* C1 (as claimed): when the original command exited non-zero, the
\* classifier returned a version and the user answered no, the program
\* ends with the exit code of the original run.
C1_DeclineKeepsOriginalCode ==
    (pc = "done" /\ how = "exit" /\ consent = "no")
      => status = runs[1].code

\* C2 (as claimed): the command runs a second time only after the install
\* command ran and exited 0; after a declined consent no child is started.
C2_RetryOnlyAfterInstall ==
    /\ \A i \in RunsOf("retry") :
         \E j \in RunsOf("remediation") : j < i /\ runs[j].code = 0
    /\ consent = "no" => Len(runs) = 1

\* C3: when the install command exits with a non-zero code c, the command
\* is never run again and the program ends with exit code c.
C3_FailedInstallIsFatal ==
    \A j \in RunsOf("remediation") :
      (Exited(j) /\ runs[j].code # 0)
        => /\ RunsOf("retry") = {}
           /\ child = NoChild
           /\ pc = "done"
           /\ status = runs[j].code

\* the install command exited 2 and the program ended
C3_Witness ==
    /\ pc = "done"
    /\ Len(runs) = 2
    /\ runs[1].kind = "original" /\ runs[1].code = 1
    /\ runs[2].kind = "remediation" /\ runs[2].code = 2
    /\ status = 2

\* C4: the install command runs at most once and the command is run again
\* at most once; the output of the second run is never classified: once
\* the second run has exited the program has ended, with one call of the
\* classifier at most, whatever that output says.
C4_AtMostOnce ==
    /\ Cardinality(RunsOf("remediation")) <= 1
    /\ Cardinality(RunsOf("retry")) <= 1
    /\ Cardinality(RunsOf("original")) <= 1
    /\ classified <= 1
    /\ \A i \in RunsOf("retry") :
         Exited(i) => (pc = "done" /\ child = NoChild /\ i = Len(runs))

\* the second run failed again with the missing-interpreter message, after
\* a successful install, and the program ended
C4_Witness ==
    /\ pc = "done"
    /\ Len(runs) = 3
    /\ runs[2].kind = "remediation" /\ runs[2].code = 0
    /\ runs[3].kind = "retry" /\ runs[3].code = 1
    /\ detect_missing_ver(runs[3].out) = <<"3", ".", "1", "2">>
    /\ status = 1

\* C5: when the first run of the command exits 0 the program ends with
\* exit code 0, with no call of the classifier, no consent prompt, and no
\* other child.
C5_SuccessIsFinal ==
    (Len(runs) >= 1 /\ runs[1].code = 0)
      => /\ pc = "done"
         /\ status = 0
         /\ classified = 0
         /\ ~ConsentAsked
         /\ Len(runs) = 1
         /\ child = NoChild

\* the command exited 0 although its output carried the message
C5_Witness ==
    /\ pc = "done"
    /\ Len(runs) = 1
    /\ runs[1].code = 0
    /\ detect_missing_ver(runs[1].out) # None
    /\ status = 0

\* C6: when the original run exits with a non-zero code c and the
\* classifier finds no match in its output, the program ends with exit
\* code c, with no consent prompt, no install command and no second run.
C6_UnclassifiedFailure ==
    ( /\ Len(runs) >= 1
      /\ Exited(1) /\ runs[1].code # 0
      /\ detect_missing_ver(runs[1].out) = None )
      => /\ pc = "done"
         /\ status = runs[1].code
         /\ ~ConsentAsked
         /\ Len(runs) = 1
         /\ child = NoChild

\* the command failed with code 2 and an unrelated message
C6_Witness ==
    /\ pc = "done"
    /\ Len(runs) = 1
    /\ runs[1].code = 2
    /\ classified = 1
    /\ missing_ver = None
    /\ status = 2

\* C7: on every path that ends after a child was run and without an
\* interrupt, the exit code of the program is the exit code of the last
\* child that was run.
C7_LastChildCode ==
    (pc = "done" /\ how = "exit")
      => /\ Len(runs) >= 1
         /\ Exited(Len(runs))
         /\ status = runs[Len(runs)].code

\* three children ran, each with another code, and the program ended with
\* the code of the third
C7_Witness ==
    /\ pc = "done" /\ how = "exit"
    /\ Len(runs) = 3
    /\ runs[1].code = 1
    /\ runs[2].code = 0
    /\ runs[3].code = 2
    /\ status = 2

\* ------------------------------------------------- SpecDetect: the classifier

InitDetect ==
    /\ dm_parts \in TextParts
    /\ dm_output = TextOf(dm_parts)
    /\ dm_result = None
    /\ dm_pc = "input"
    /\ MainStart(<< >>)
    /\ RunIdle

\* one call of detect_missing_ver on the captured text
Classify ==
    /\ dm_pc = "input"
    /\ dm_result' = detect_missing_ver(dm_output)
    /\ dm_pc' = "classified"
    /\ UNCHANGED <<dm_parts, dm_output, mainVars, rnVars>>

NextDetect == Classify

SpecDetect == InitDetect /\ [][NextDetect]_vars

\* ------------------------------------------------------ SpecRun: cmd_run

\* the bytes a child writes: an ASCII letter, and the two bytes of one
\* two-byte UTF-8 character (lead byte C3, continuation byte A9)
Bytes == {"a", "C3", "A9"}

\* the non-empty values os.read(master, 1024) returns
Chunks == SeqsUpTo(Bytes, MaxChunk) \ {<< >>}

\* bytes.decode("utf-8", errors="replace"): a lead byte with its
\* continuation byte is one character; a lead byte without one, and a
\* continuation byte on its own, each become U+FFFD
RECURSIVE Utf8Decode(_)
Utf8Decode(bs) ==
    IF bs = << >> THEN << >>
    ELSE IF Head(bs) = "a" THEN <<"a">> \o Utf8Decode(Tail(bs))
    ELSE IF Head(bs) = "C3" /\ Len(bs) >= 2 /\ bs[2] = "A9"
      THEN <<"e-acute">> \o Utf8Decode(Tail(Tail(bs)))
    ELSE <<"U+FFFD">> \o Utf8Decode(Tail(bs))

\* "".join(xs) for a sequence of texts
RECURSIVE Join(_)
Join(xs) == IF xs = << >> THEN << >> ELSE Head(xs) \o Join(Tail(xs))

\* the prefixes of a chunk, the empty and the whole one included
Prefixes(data) == {SubSeq(data, 1, n) : n \in 0..Len(data)}

\* cmd_run after Popen and os.close(slave), before the first os.read
InitRun ==
    /\ rn_pc = "read"
    /\ rn_chunks = << >>
    /\ rn_relayed = << >>
    /\ rn_outbuf = << >>
    /\ rn_child = Running
    /\ rn_end = ""
    /\ rn_eof = FALSE
    /\ rn_ret = [exit_code |-> Running, output |-> << >>]
    /\ MainStart(<< >>)
    /\ DetectIdle

\* one pass of the loop, lines 105-110: os.read returns a chunk, which is
\* written to sys.stdout.buffer, flushed, decoded and appended to outbuf
ReadChunk ==
    /\ rn_pc = "read"
    /\ ~rn_eof
    /\ Len(rn_chunks) < MaxReads
    /\ \E data \in Chunks :
         /\ rn_chunks' = Append(rn_chunks, data)
         /\ rn_relayed' = rn_relayed \o data
         /\ rn_outbuf' = Append(rn_outbuf, Utf8Decode(data))
    /\ UNCHANGED <<rn_pc, rn_child, rn_end, rn_eof, rn_ret, mainVars,
                   dmVars>>

\* os.read returns b"" at the end of the stream: break (lines 106-107)
ReadEnd ==
    /\ rn_pc = "read"
    /\ rn_eof
    /\ rn_pc' = "wait"
    /\ rn_end' = "eof"
    /\ UNCHANGED <<rn_chunks, rn_relayed, rn_outbuf, rn_child, rn_eof,
                   rn_ret, mainVars, dmVars>>

\* the OSError of os.read is raised to the caller of cmd_run
ReadFailsPropagates ==
    /\ rn_pc = "read"
    /\ rn_pc' = "raised"
    /\ rn_end' = "read error"
    /\ UNCHANGED <<rn_chunks, rn_relayed, rn_outbuf, rn_child, rn_eof,
                   rn_ret, mainVars, dmVars>>

\* os.read raises OSError, at the end of the stream (EIO of a closed
\* pseudo-terminal) or before it: except OSError: pass (lines 111-112)
ReadFails ==
    /\ rn_pc = "read"
    /\ rn_pc' = "wait"
    /\ rn_end' = "read error"
    /\ UNCHANGED <<rn_chunks, rn_relayed, rn_outbuf, rn_child, rn_eof,
                   rn_ret, mainVars, dmVars>>

\* os.read returns a chunk and write or flush raises OSError after some
\* part of the chunk has gone out: the chunk is not appended to outbuf
\* (lines 108-112)
WriteFails ==
    /\ rn_pc = "read"
    /\ ~rn_eof
    /\ Len(rn_chunks) < MaxReads
    /\ \E data \in Chunks :
         /\ rn_chunks' = Append(rn_chunks, data)
         /\ \E part \in Prefixes(data) : rn_relayed' = rn_relayed \o part
    /\ rn_pc' = "wait"
    /\ rn_end' = "write error"
    /\ UNCHANGED <<rn_outbuf, rn_child, rn_eof, rn_ret, mainVars, dmVars>>

\* the child has closed the slave side and nothing is left to read: the
\* stream that os.read(master, 1024) reads is at its end (line 105)
StreamEnds ==
    /\ ~rn_eof
    /\ rn_eof' = TRUE
    /\ UNCHANGED <<rn_pc, rn_chunks, rn_relayed, rn_outbuf, rn_child, rn_end,
                   rn_ret, mainVars, dmVars>>

\* the child terminates with some exit code
ChildExits ==
    /\ rn_child = Running
    /\ rn_child' \in ExitCodes
    /\ UNCHANGED <<rn_pc, rn_chunks, rn_relayed, rn_outbuf, rn_end, rn_eof,
                   rn_ret, mainVars, dmVars>>

\* proc.wait() returns once the child has terminated; cmd_run returns the
\* exit code and the joined outbuf (lines 114-116)
Wait ==
    /\ rn_pc = "wait"
    /\ rn_child # Running
    /\ rn_ret' = [exit_code |-> rn_child, output |-> Join(rn_outbuf)]
    /\ rn_pc' = "returned"
    /\ UNCHANGED <<rn_chunks, rn_relayed, rn_outbuf, rn_child, rn_end,
                   rn_eof, mainVars, dmVars>>

NextRun ==
    \/ ReadChunk
    \/ ReadEnd
    \/ ReadFails
    \/ WriteFails
    \/ StreamEnds
    \/ ChildExits
    \/ Wait

SpecRun == InitRun /\ [][NextRun]_vars

\* cmd_run with its progress: proc.wait() returns when the child has
\* ended (line 114), and the child of the call ends at some time
SpecRunFair ==
    /\ InitRun
    /\ [][NextRun]_vars
    /\ WF_vars(Wait)
    /\ WF_vars(ChildExits)

\* --------------------------------------------------------------- claim C10

\* C10 (as claimed): for every sequence of chunks read from the child,
\* what cmd_run returns as captured output is the decoding of the byte
\* stream it relayed to standard output, in content and order, also when
\* an error ends the loop and when a character is split across two chunks.
C10_CaptureIsRelay ==
    rn_pc = "returned" => rn_ret.output = Utf8Decode(rn_relayed)

\* ---------------------------------------------- what a captured text states

\* the version written right after position i: digits, a dot, digits, each
\* run taken whole; << >> when no version stands there
VersionAt(text, i) ==
    LET p == DigitRunEnd(text, i + 1) + 1
    IN  IF p = i + 1 \/ p > Len(text) \/ text[p] # "." THEN << >>
        ELSE IF DigitRunEnd(text, p + 1) = p THEN << >>
        ELSE SubSeq(text, i + 1, DigitRunEnd(text, p + 1))

\* positions of the fragments "No interpreter found for Python <version>"
FirstFragments(text) ==
    {i \in 1..Len(text) : text[i] = NOINTERP /\ VersionAt(text, i) # << >>}

\* positions of the install fragments naming a version
InstallFragments(text) ==
    {k \in 1..Len(text) : text[k] = INSTALL /\ VersionAt(text, k) # << >>}

\* ------------------------------------------------------------- claims C8, C9

\* C8 (as claimed): detect_missing_ver returns a version V only if the text
\* has a first fragment whose stated version is V and, later, an install
\* fragment naming the same V; and a text whose only first fragment names A
\* and whose only install fragment names a different B (B may be a proper
\* prefix of A) yields no match.
C8_SameVersionOnly ==
    dm_pc = "classified" =>
      /\ dm_result # None =>
           \E i \in FirstFragments(dm_output) :
             \E k \in InstallFragments(dm_output) :
               /\ i < k
               /\ VersionAt(dm_output, i) = dm_result
               /\ VersionAt(dm_output, k) = dm_result
      /\ \A i \in FirstFragments(dm_output) :
           \A k \in InstallFragments(dm_output) :
             ( /\ FirstFragments(dm_output) = {i}
               /\ InstallFragments(dm_output) = {k}
               /\ VersionAt(dm_output, i) # VersionAt(dm_output, k) )
             => dm_result = None

\* the text is a first fragment naming v, intervening text, the download
\* fragment, intervening text, and the install fragment in the given form
MadeOf(p, v, install) ==
    /\ p.first = <<NOINTERP>> \o v
    /\ p.avail = <<AVAIL>>
    /\ p.second = install

\* C9 (as claimed): for every version V, a text made of the first fragment
\* naming V, any intervening text, the download fragment and then the words
\* use uv python install V is classified as V.
C9_AsClaimed ==
    \A v \in Versions :
      (dm_pc = "classified" /\ MadeOf(dm_parts, v, <<INSTALLPLAIN>> \o v))
        => dm_result = v

\* C9 (amended): for every version V, a text made of the first fragment
\* naming V, intervening text that does not begin with a digit (line breaks
\* included), the download fragment and then the install fragment with its
\* backticks around the command is classified as V.
C9_BacktickedInstallDetected ==
    \A v \in Versions :
      ( /\ dm_pc = "classified"
        /\ MadeOf(dm_parts, v, <<INSTALL>> \o v \o <<TICK>>)
        /\ (dm_parts.f1 = << >> \/ Head(dm_parts.f1) \notin Digits) )
        => dm_result = v

\* a text with a line break between the fragments was classified as 3.12
C9_Witness ==
    /\ dm_pc = "classified"
    /\ MadeOf(dm_parts, <<"3", ".", "1", "2">>,
              <<INSTALL, "3", ".", "1", "2", TICK>>)
    /\ dm_parts.f1 = <<"\n">>
    /\ dm_parts.f2 = <<"\n">>
    /\ dm_result = <<"3", ".", "1", "2">>


\* --------------------------------------------------------------- claim C11

\* the argument vectors of the claim: no help or version flag, and zero,
\* one or more than two arguments, or two with an invalid project type or
\* a project name that is not an identifier
UsageError(args) ==
    /\ \A i \in 1..Len(args) : args[i] \notin {"-h", "--version"}
    /\ \/ Len(args) \in {0, 1}
       \/ Len(args) > 2
       \/ /\ Len(args) = 2
          /\ \/ args[1] \notin {"s", "lib"}
             \/ args[2] = "9x"

\* C11: for every argument vector without a help or version flag that has
\* zero, one or more than two arguments, or two arguments with an invalid
\* project type or a project name that is not an identifier, parse_args
\* ends the program with exit code 2 before any prompt is shown and before
\* any child is started; with one argument that is a valid type the error
\* reported is "missing arg: project name".
C11_UsageErrorsExitTwo ==
    UsageError(argv) =>
        /\ prompts = << >>
        /\ runs = << >>
        /\ child = NoChild
        /\ (pc # "parse_args" /\ how # "interrupt") =>
              /\ pc = "done"
              /\ status = 2
              /\ errs # << >>
              /\ (Len(argv) = 1 /\ argv[1] \in {"s", "lib"}) =>
                     errs = <<"missing arg: project name">>

\* parse_args has ended the program for a single valid project type
C11_Witness ==
    /\ argv = <<"lib">>
    /\ pc = "done"
    /\ status = 2
    /\ errs = <<"missing arg: project name">>


\* --------------------------------------------------------------- claim C12

\* C12: an interrupt delivered in any phase of main (argument parsing, a
\* prompt, the original run, the consent prompt, the install run or the
\* second run of the command) ends the program with exit code 130, and
\* after the interrupt no prompt is shown and no child is started.
C12_InterruptExits130 ==
    /\ [](how = "interrupt" => (pc = "done" /\ status = 130))
    /\ [][how = "interrupt" =>
            /\ how' = "interrupt"
            /\ status' = 130
            /\ prompts' = prompts
            /\ runs' = runs]_vars

\* the interrupt came while the second run of the command was going on,
\* after an install that succeeded
C12_Witness ==
    /\ how = "interrupt"
    /\ status = 130
    /\ Len(runs) = 3
    /\ runs[2].kind = "remediation" /\ runs[2].code = 0
    /\ runs[3].kind = "retry" /\ runs[3].code = Running


\* --------------------------------------------------------------- claim C13

\* the kinds of the children started so far, in the order of their start
KindsOfRuns == [i \in 1..Len(runs) |-> runs[i].kind]

\* C13 (as claimed): in every run of the program at most two children are
\* started in total.
C13_AtMostTwo == Len(runs) <= 2

\* C13 (amended): in every run of the program at most three children are
\* started in total: the original command, then either the command again,
\* or the install command and after it the command again.
C13_AtMostThree ==
    /\ Len(runs) <= 3
    /\ KindsOfRuns \in {<< >>, <<"original">>,
                        <<"original", "retry">>,
                        <<"original", "remediation">>,
                        <<"original", "remediation", "retry">>}

\* the original run, the install run and the second run of the command
\* have all been started and have all ended
C13_Witness ==
    /\ KindsOfRuns = <<"original", "remediation", "retry">>
    /\ \A i \in 1..3 : Exited(i)
    /\ pc = "done"


\* --------------------------------------------------------------- claim C14

\* the children that have been started and have not ended
Alive == {i \in 1..Len(runs) : ~Exited(i)}

\* at most one child is alive, each child was started only after the one
\* before it had ended, and main is past a call of cmd_run only when the
\* child of that call has ended
OneChildAtATime ==
    /\ Cardinality(Alive) <= 1
    /\ \A i \in 1..Len(runs) - 1 : Exited(i)
    /\ child # NoChild => (runs # << >> /\ ~Exited(Len(runs)))
    /\ (pc = "consent" \/ (pc = "done" /\ how = "exit")) => Alive = {}
    /\ classified > 0 => Exited(1)

DecodedChunks == [i \in 1..Len(rn_chunks) |-> Utf8Decode(rn_chunks[i])]

SupportedVersions ==
    {<<"3", ".", "7">>, <<"3", ".", "8">>, <<"3", ".", "9">>,
     <<"3", ".", "1", "0">>, <<"3", ".", "1", "1">>, <<"3", ".", "1", "2">>,
     <<"3", ".", "1", "3">>, <<"3", ".", "1", "4">>}

\* what the claim has get_ver return on a line typed, Unset for the lines
\* it has get_ver reject: the empty line gives 3.13, the line of a
\* supported version gives that version
C16_Returned(line) ==
    IF line = << >> THEN <<"3", ".", "1", "3">>
    ELSE IF line = <<" ", "3", ".", "7">> THEN <<"3", ".", "7">>
    ELSE IF line = <<"3", ".", "1", "4">> THEN <<"3", ".", "1", "4">>
    ELSE Unset

\* C16: for every sequence of answers to the version prompt, get_ver
\* returns only on the first answer that is empty or one of 3.7 ... 3.14:
\* an empty answer gives the default 3.13, a valid answer gives itself,
\* and every other answer prints an error and asks again without ending
\* the program or starting a child; the version returned is always one of
\* 3.7 ... 3.14.
C16_GetVer ==
    /\ [](ver # Unset => ver \in SupportedVersions)
    /\ [](pc = "get_ver" =>
             (ver = Unset /\ runs = << >> /\ status = Running))
    /\ [][(pc = "get_ver" /\ how' # "interrupt") =>
             IF C16_Returned(typed') = Unset
             THEN /\ pc' = "get_ver"
                  /\ ver' = Unset
                  /\ errs' = Append(errs, "invalid version")
                  /\ Len(prompts') = Len(prompts) + 1
                  /\ prompts'[Len(prompts')] = prompts[Len(prompts)]
                  /\ prompts'[Len(prompts')].fn = "get_ver"
                  /\ runs' = << >>
                  /\ status' = Running
             ELSE /\ pc' # "get_ver"
                  /\ ver' = C16_Returned(typed')
                  /\ errs' = errs]_vars

\* get_ver has returned the default after one answer it rejected
C16_Witness ==
    /\ ver = <<"3", ".", "1", "3">>
    /\ typed = << >>
    /\ errs = <<"invalid version">>
    /\ \E i \in 1..Len(prompts) - 1 :
          prompts[i].fn = "get_ver" /\ prompts[i + 1].fn = "get_ver"


\* --------------------------------------------------------------- claim C17

\* the lines of YnAnswers that the claim counts as yes, and as no
YesLines == {<<"y">>, <<" ", "Y", "E", "S">>}
NoLines == {<<"n">>, <<"N", "o", " ">>}

\* the positions of main inside a call of yn_inp, and the functions that
\* make those calls
YnPcs == {"get_vcs", "get_rm", "consent"}
YnFns == {"get_vcs", "get_rm", "install_missing_ver"}

\* the prompt p starts with the error marker
HasMarker(p) == p.prompt # << >> /\ p.prompt[1] = "[red]! [/]"

\* C17: for every sequence of answers, yn_inp returns true on the first
\* answer that is y or yes and false on the first that is n or no, in any
\* case and with white space around it; every other answer makes it ask
\* again; and a prompt of yn_inp carries the error marker exactly when an
\* invalid answer was given before in the same call.
C17_YnInp ==
    /\ [](\A i \in 1..Len(prompts) :
             prompts[i].fn \in YnFns =>
                (HasMarker(prompts[i]) <=>
                    (i > 1 /\ prompts[i - 1].fn = prompts[i].fn)))
    /\ [][(pc \in YnPcs /\ how' # "interrupt") =>
             IF typed' \in YesLines
             THEN /\ pc' # pc
                  /\ pc = "get_vcs" => vcs' = "'git'"
                  /\ pc = "get_rm" => readme_flag' = ""
                  /\ pc = "consent" => consent' = "yes"
             ELSE IF typed' \in NoLines
             THEN /\ pc' # pc
                  /\ pc = "get_vcs" => vcs' = "'none'"
                  /\ pc = "get_rm" => readme_flag' = "--no-readme"
                  /\ pc = "consent" => consent' = "no"
             ELSE /\ pc' = pc
                  /\ Len(prompts') = Len(prompts) + 1
                  /\ SubSeq(prompts', 1, Len(prompts)) = prompts
                  /\ prompts'[Len(prompts')].fn = prompts[Len(prompts)].fn
                  /\ HasMarker(prompts'[Len(prompts')])
                  /\ UNCHANGED <<vcs, readme_flag, consent, runs, status>>]_vars

\* yn_inp("vcs") has returned true on the line " YES", typed after an
\* answer it rejected, and the prompt of the next call is plain
C17_Witness ==
    /\ pc = "get_rm"
    /\ typed = <<" ", "Y", "E", "S">>
    /\ vcs = "'git'"
    /\ Len(prompts) = 5
    /\ prompts[3].fn = "get_vcs" /\ ~HasMarker(prompts[3])
    /\ prompts[4].fn = "get_vcs" /\ HasMarker(prompts[4])
    /\ prompts[5].fn = "get_rm" /\ ~HasMarker(prompts[5])


\* --------------------------------------------------------------- claim C18

\* the place of a prompt in the order version, description, vcs, readme,
\* with the consent prompt after them
PromptRank(fn) ==
    CASE fn = "get_ver" -> 1
      [] fn = "get_desc" -> 2
      [] fn = "get_vcs" -> 3
      [] fn = "get_rm" -> 4
      [] OTHER -> 5

\* the functions that have shown a prompt so far
FnsAsked == {prompts[i].fn : i \in 1..Len(prompts)}

\* C18: for the project type script only the version is asked and the
\* command is uv init <name> --script --python <version>, with no
\* description, vcs or readme option; for every other type the prompts
\* come in the order version, description, vcs, readme, and the command
\* carries --description, --vcs 'git' exactly when the vcs answer is yes
\* ('none' otherwise) and --no-readme exactly when the readme answer is no.
C18_CommandAssembly ==
    /\ [](\A i, j \in 1..Len(prompts) :
             i <= j => PromptRank(prompts[i].fn) <= PromptRank(prompts[j].fn))
    /\ []((cmd # Unset /\ pt = "script") =>
             /\ cmd = <<"uv init ", pn, " --", "script", " --python ">> \o ver
             /\ FnsAsked \subseteq {"get_ver", "install_missing_ver"})
    /\ []((cmd # Unset /\ pt # "script") =>
             /\ cmd = <<"uv init ", pn, " --", pt, " --python ">> \o ver
                        \o <<" --description ">> \o desc
                        \o <<" --vcs ", vcs, " ", readme_flag>>
             /\ vcs \in {"'git'", "'none'"}
             /\ readme_flag \in {"", "--no-readme"}
             /\ {"get_ver", "get_desc", "get_vcs", "get_rm"}
                   \subseteq FnsAsked)
    /\ [][(pc = "get_vcs" /\ pc' = "get_rm") =>
             (vcs' = "'git'" <=> typed' \in YesLines)]_vars
    /\ [][(pc = "get_rm" /\ pc' = "original") =>
             /\ readme_flag' = "--no-readme" <=> typed' \in NoLines
             /\ cmd' # Unset
             /\ vcs' = vcs]_vars

\* the command of a lib project after the answers no to vcs and no to
\* readme
C18_Witness ==
    /\ pt = "lib"
    /\ pc = "original"
    /\ Len(cmd) >= 3
    /\ SubSeq(cmd, Len(cmd) - 2, Len(cmd)) = <<"'none'", " ", "--no-readme">>
    /\ [i \in 1..Len(prompts) |-> prompts[i].fn]
          = <<"get_ver", "get_desc", "get_vcs", "get_rm">>


\* --------------------------------------------------------------- claim C19

\* C19: the second run of the command executes exactly the command string
\* of the original run: between the two the command is not built again,
\* no version, description, vcs or readme prompt is asked again, and no
\* child is started before all of those prompts have got a valid answer.
C19_RetrySameCommand ==
    /\ [](\A i \in RunsOf("retry") :
             /\ runs[1].kind = "original"
             /\ runs[i].cmd = runs[1].cmd)
    /\ [](runs # << >> =>
             /\ cmd # Unset /\ runs[1].cmd = cmd
             /\ pc \notin {"parse_args", "get_ver", "get_desc", "get_vcs",
                           "get_rm"}
             /\ ver \in SupportedVersions
             /\ pt # "script" =>
                   /\ desc # Unset
                   /\ vcs \in {"'git'", "'none'"}
                   /\ "get_rm" \in FnsAsked)
    /\ [][cmd # Unset => cmd' = cmd]_vars
    /\ [][runs # << >> =>
             \/ prompts' = prompts
             \/ /\ Len(prompts') = Len(prompts) + 1
                /\ SubSeq(prompts', 1, Len(prompts)) = prompts
                /\ prompts'[Len(prompts')].fn = "install_missing_ver"]_vars

\* the command of a lib project has been run a second time, after the
\* install command, and both runs were given the same command
C19_Witness ==
    /\ pt = "lib"
    /\ KindsOfRuns = <<"original", "remediation", "retry">>
    /\ runs[3].cmd = runs[1].cmd
    /\ runs[2].cmd # runs[1].cmd
    /\ Exited(3)


\* --------------------------------------------------------------- claim C20

\* the positions of the consent prompts among the prompts shown
ConsentPrompts ==
    {i \in 1..Len(prompts) : prompts[i].fn = "install_missing_ver"}

\* every consent prompt comes after the original run has ended with a
\* non-zero code and the classifier has returned a version from the output
\* of that run, it shows that version, and the install command is given
\* that version
ConsentFollowsClassifier ==
    /\ \A i \in ConsentPrompts :
          /\ runs # << >> /\ runs[1].kind = "original"
          /\ Exited(1) /\ runs[1].code # 0
          /\ detect_missing_ver(runs[1].out) \in Versions
          /\ missing_ver = detect_missing_ver(runs[1].out)
          /\ prompts[i].prompt \in
                {m \o <<"install Python ">> \o missing_ver \o <<"?">> :
                    m \in {<< >>, ErrMarker}}
    /\ \A i \in RunsOf("remediation") :
          /\ ConsentPrompts # {}
          /\ runs[i].cmd =
                <<"uv python install ">> \o detect_missing_ver(runs[1].out)

\* C20 (as claimed): the consent prompt is shown at most once per run, only
\* after the original command has ended with a non-zero code and
\* detect_missing_ver has returned a version from the output of that run,
\* and the version in the prompt and in the install command is the version
\* the classifier returned.
C20_AsClaimed ==
    /\ Cardinality(ConsentPrompts) <= 1
    /\ ConsentFollowsClassifier

\* C20 (amended): the consent question is asked at most once per run, its
\* prompt being shown again, with the error marker, only after an invalid
\* answer to it; it is asked only after the original command has ended
\* with a non-zero code and detect_missing_ver has returned a version from
\* the output of that run, and the version in the prompt and in the
\* install command is the version the classifier returned.
C20_ConsentAskedOnce ==
    /\ Cardinality({i \in ConsentPrompts : ~HasMarker(prompts[i])}) <= 1
    /\ \A i \in ConsentPrompts :
          HasMarker(prompts[i]) => (i - 1) \in ConsentPrompts
    /\ classified <= 1
    /\ ConsentFollowsClassifier

\* the install command for 3.12 was started on a yes that followed an
\* invalid answer: the consent prompt was shown twice
C20_Witness ==
    /\ Cardinality(ConsentPrompts) = 2
    /\ consent = "yes"
    /\ \E i \in RunsOf("remediation") :
          runs[i].cmd = <<"uv python install ", "3", ".", "1", "2">>

====
